---------------------------- MODULE Spec2Model ----------------------------
(***************************************************************************)
(* Arbitrary-precision signed integers (Integer.cpp, base-100 digits,      *)
(* least-significant first) and the rational numbers built on them         *)
(* (Rational.cpp).  Every function of the two classes is an operator       *)
(* computed the way the code computes it; two drivers apply them: Spec     *)
(* drives an Integer value, SpecRational a Rational value.                 *)
(***************************************************************************)
EXTENDS Integers, Sequences, FiniteSets, TLC

(***************************************************************************)
(* Bounds of the model.                                                    *)
(***************************************************************************)
\* arithmetic steps applied to one value
MaxOps == 2
\* an arithmetic step is taken only while its result has at most this many digits
MaxDigits == 3
\* length of the digit arrays handed to the constructors
MaxLen == 2
\* width in bits of the native integer the long long constructor is driven with
LLBits == 30
\* arithmetic steps applied to one Rational value
MaxRatOps == 2

(***************************************************************************)
(* Program constants.                                                      *)
(***************************************************************************)
BASE == 100
\* DigitType is unsigned char: a stored digit is a value modulo UCharRange
UCharRange == 256
EXIT_FAILURE == 1

LLMax == 2^(LLBits - 1) - 1
LLMin == -(2^(LLBits - 1))

Max(p, q) == IF p >= q THEN p ELSE q
Abs(p) == IF p < 0 THEN -p ELSE p
\* C++ integer division and remainder truncate toward zero
CDiv(p, q) == IF p >= 0 THEN p \div q ELSE -((-p) \div q)
CMod(p, q) == p - q * CDiv(p, q)
\* static_cast<DigitType>(v)
ToDigit(v) == v % UCharRange

(***************************************************************************)
(* Values and outcomes.  An Integer is its two fields.  A function that    *)
(* can fail returns an outcome: fail = "none" and the value, or the        *)
(* failure and no value (val is then the untouched default).  how and msg  *)
(* are what the caller observes of a failure: the mechanism (a thrown      *)
(* std::invalid_argument, or exit()) and the text it carries.              *)
(***************************************************************************)
Zero == [sign |-> FALSE, digits |-> <<>>]
Ok(v) == [fail |-> "none", val |-> v, how |-> "return", msg |-> ""]
Throw(e, msg) == [fail |-> e, val |-> Zero, how |-> "throw invalid_argument", msg |-> msg]
Bind(r, F(_)) == IF r.fail # "none" THEN r ELSE F(r.val)

\* ---- Integer::normalize ----
RECURSIVE PopZeros(_)
PopZeros(d) ==
    IF Len(d) > 1 /\ d[Len(d)] = 0 THEN PopZeros(SubSeq(d, 1, Len(d) - 1)) ELSE d

\* mutant: the most-significant zero digits are not popped
Integer_normalize_NoPop(i) ==
    LET clr == i.digits = <<>> \/ (Len(i.digits) = 1 /\ i.digits[1] = 0)
    IN  [sign |-> IF clr THEN FALSE ELSE i.sign,
         digits |-> IF clr THEN <<>> ELSE i.digits]

Integer_normalize(i) ==
    LET d1 == PopZeros(i.digits)
        clr == d1 = <<>> \/ (Len(d1) = 1 /\ d1[1] = 0)
        d2 == IF clr THEN <<>> ELSE d1
        s2 == IF clr THEN FALSE ELSE i.sign
    IN  [sign |-> IF d2 = <<>> THEN FALSE ELSE s2, digits |-> d2]

isZero(i) == i.digits = <<>>
isNegative(i) == i.sign /\ ~isZero(i)
signum(i) == IF isZero(i) THEN 0 ELSE IF i.sign THEN -1 ELSE 1

\* ---- Integer::compareMagnitude ----
RECURSIVE CompareFrom(_, _, _)
CompareFrom(d1, d2, i) ==
    IF i < 1 THEN 0
    ELSE IF d1[i] < d2[i] THEN -1
    ELSE IF d1[i] > d2[i] THEN 1
    ELSE CompareFrom(d1, d2, i - 1)

\* mutant: equal lengths compare equal, the digits are not looked at
compareMagnitude_LengthOnly(a, b) ==
    IF Len(a.digits) < Len(b.digits) THEN -1
    ELSE IF Len(a.digits) > Len(b.digits) THEN 1
    ELSE 0

compareMagnitude(a, b) ==
    IF Len(a.digits) < Len(b.digits) THEN -1
    ELSE IF Len(a.digits) > Len(b.digits) THEN 1
    ELSE IF a.digits = <<>> THEN 0
    ELSE CompareFrom(a.digits, b.digits, Len(a.digits))

\* ---- Integer::Integer(bool, std::vector<DigitType>) ----
\* mutant: the largest digit is rejected as well
Integer_vec_OffByOne(s, d) ==
    IF \E k \in 1..Len(d) : d[k] >= BASE - 1
    THEN Throw("InvalidDigit", "Invalid digit in vector constructor")
    ELSE Ok(Integer_normalize([sign |-> s, digits |-> d]))

Integer_vec(s, d) ==
    IF \E k \in 1..Len(d) : d[k] >= BASE
    THEN Throw("InvalidDigit", "Invalid digit in vector constructor")
    ELSE Ok(Integer_normalize([sign |-> s, digits |-> d]))

\* ---- Integer::Integer(bool, int, const char*) ----
\* d is the pointer: null, or the array it points to (n <= Len(d.arr) whenever
\* the array is read)
NullPtr == [null |-> TRUE, arr |-> <<>>]
ArrayPtr(arr) == [null |-> FALSE, arr |-> arr]

RECURSIVE TrimCount(_, _)
TrimCount(d, m) == IF m > 1 /\ d[m] = 0 THEN TrimCount(d, m - 1) ELSE m

\* mutant: the test for a negative char is missing
CharInvalid_NoNegative(c) == c >= BASE

CharInvalid(c) == (c % UCharRange) >= BASE \/ c < 0

Integer_chars(s, n, d) ==
    IF n <= 0 \/ d.null THEN Ok(Zero)
    ELSE LET m == TrimCount(d.arr, n)
         IN  IF m = 1 /\ d.arr[1] = 0 THEN Ok(Zero)
             ELSE IF \E k \in 1..m : CharInvalid(d.arr[k])
                  THEN Throw("InvalidDigit", "Invalid digit in char* constructor")
                  ELSE Ok(Integer_normalize(
                          [sign |-> s, digits |-> [k \in 1..m |-> ToDigit(d.arr[k])]]))

\* ---- Integer::Integer(long long) ----
RECURSIVE DigitsOf(_)
DigitsOf(v) == IF v > 0 THEN <<ToDigit(v % BASE)>> \o DigitsOf(v \div BASE) ELSE <<>>

Magnitude_ll(i) == IF i = LLMin THEN LLMax + 1 ELSE Abs(i)

Integer_ll(i) ==
    IF i = 0 THEN [sign |-> FALSE, digits |-> <<>>]
    ELSE [sign |-> i < 0, digits |-> DigitsOf(Magnitude_ll(i))]

\* ---- Integer::addMagnitude ----
RECURSIVE AddLoop(_, _, _, _, _)
AddLoop(d1, d2, i, carry, res) ==
    IF i > Max(Len(d1), Len(d2))
    THEN IF carry > 0 THEN Append(res, ToDigit(carry)) ELSE res
    ELSE LET sum == carry + (IF i <= Len(d1) THEN d1[i] ELSE 0)
                          + (IF i <= Len(d2) THEN d2[i] ELSE 0)
         IN  AddLoop(d1, d2, i + 1, CDiv(sum, BASE), Append(res, ToDigit(CMod(sum, BASE))))

\* mutant: the carry out of the last digit is not pushed
addMagnitude_DropCarry(a, b) ==
    Integer_vec(FALSE, SubSeq(AddLoop(a.digits, b.digits, 1, 0, <<>>), 1,
                              Max(Len(a.digits), Len(b.digits))))

addMagnitude(a, b) == Integer_vec(FALSE, AddLoop(a.digits, b.digits, 1, 0, <<>>))

\* ---- Integer::subtractMagnitude ----
\* the digits pushed, and borrow as the loop leaves it
RECURSIVE SubLoop(_, _, _, _, _)
SubLoop(d1, d2, i, borrow, res) ==
    IF i > Len(d1) THEN [res |-> res, borrow |-> borrow]
    ELSE LET diff == d1[i] - borrow - (IF i <= Len(d2) THEN d2[i] ELSE 0)
         IN  IF diff < 0
             THEN SubLoop(d1, d2, i + 1, 1, Append(res, ToDigit(diff + BASE)))
             ELSE SubLoop(d1, d2, i + 1, 0, Append(res, ToDigit(diff)))

subtractMagnitude(a, b) == Integer_vec(FALSE, SubLoop(a.digits, b.digits, 1, 0, <<>>).res)

\* ---- Integer::operator-() ----
operator_neg(i) == IF isZero(i) THEN i ELSE [i EXCEPT !.sign = ~i.sign]

\* ---- Integer::abs ----
abs(i) == IF i.sign THEN operator_neg(i) ELSE i

\* r.sign = s; r.normalize(); return r;
WithSign(r, s) == Ok(Integer_normalize([r EXCEPT !.sign = s]))

\* ---- Integer::operator+ ----
\* mutant: the operands of the subtraction are not ordered
SubtractOperands_Unordered(a, b) == <<a, b>>

\* The arguments of the call of subtractMagnitude when the signs differ and the
\* magnitudes are unequal: (*this, rhs) if cmp > 0, (rhs, *this) otherwise.
SubtractOperands(a, b) == IF compareMagnitude(a, b) > 0 THEN <<a, b>> ELSE <<b, a>>

\* mutant: a difference always takes the sign of the left operand
operator_plus_LeftSign(a, b) ==
    IF a.sign = b.sign
    THEN Bind(addMagnitude(a, b), LAMBDA r : WithSign(r, a.sign))
    ELSE IF compareMagnitude(a, b) = 0 THEN Ok(Zero)
    ELSE LET p == SubtractOperands(a, b)
         IN  Bind(subtractMagnitude(p[1], p[2]), LAMBDA r : WithSign(r, a.sign))

\* The result of a difference takes the sign of the first argument of the call.
operator_plus(a, b) ==
    IF a.sign = b.sign
    THEN Bind(addMagnitude(a, b), LAMBDA r : WithSign(r, a.sign))
    ELSE IF compareMagnitude(a, b) = 0 THEN Ok(Zero)
    ELSE LET p == SubtractOperands(a, b)
         IN  Bind(subtractMagnitude(p[1], p[2]), LAMBDA r : WithSign(r, p[1].sign))

\* The call of subtractMagnitude that a + b makes, if it makes one: its
\* arguments, the borrow its loop ends with and what it returns.
NoCall == [called |-> FALSE, x |-> Zero, y |-> Zero, borrow |-> 0, res |-> Zero]
SubtractCall(a, b) ==
    IF a.sign = b.sign \/ compareMagnitude(a, b) = 0 THEN NoCall
    ELSE LET p == SubtractOperands(a, b)
         IN  [called |-> TRUE, x |-> p[1], y |-> p[2],
              borrow |-> SubLoop(p[1].digits, p[2].digits, 1, 0, <<>>).borrow,
              res |-> subtractMagnitude(p[1], p[2]).val]

\* ---- Integer::operator-(const Integer&) ----
operator_minus(a, b) == operator_plus(a, operator_neg(b))

\* ---- Integer::operator* ----
\* st is the state of the loops: tmp, the accumulator std::vector<int>(n1 + n2, 0)
\* (tmp[k] of the code is tmp[k + 1] here), and carry.  i, j and pos keep the
\* code's 0-based values.  st also reports what the loops did: oob, an index
\* past the end of tmp (undefined behaviour); top, the largest value carry
\* took; last, the largest index of tmp read or written; steps, the iterations
\* of the carry loops; cells, whether every cell was below BASE after each row.
NoRun(n) ==
    [tmp |-> [k \in 1..n |-> 0], carry |-> 0, oob |-> FALSE, top |-> 0, last |-> 0,
     steps |-> 0, cells |-> TRUE]

\* v = tmp[k] + add + carry; tmp[k] = v % BASE; carry = v / BASE;
Accumulate(st, k, add) ==
    LET v == st.tmp[k + 1] + add + st.carry
    IN  [st EXCEPT !.tmp[k + 1] = CMod(v, BASE), !.carry = CDiv(v, BASE),
                   !.top = Max(@, CDiv(v, BASE)), !.last = Max(@, k)]

RECURSIVE MulInner(_, _, _, _, _)
MulInner(st, da, db, i, j) ==
    IF j >= Len(db) THEN st
    ELSE MulInner(Accumulate(st, i + j, da[i + 1] * db[j + 1]), da, db, i, j + 1)

\* while (carry) { tmp[pos] += carry ...; ++pos; }
RECURSIVE MulCarry(_, _)
MulCarry(st, pos) ==
    IF st.carry = 0 THEN st
    ELSE IF pos >= Len(st.tmp)
    THEN [st EXCEPT !.oob = TRUE, !.last = Max(@, pos), !.steps = @ + 1]
    ELSE MulCarry([Accumulate(st, pos, 0) EXCEPT !.steps = @ + 1], pos + 1)

\* the end of a row of the outer loop
RowDone(st) == [st EXCEPT !.cells = @ /\ \A k \in 1..Len(st.tmp) : st.tmp[k] < BASE]

RECURSIVE MulRows(_, _, _, _)
MulRows(st, da, db, i) ==
    IF i >= Len(da) \/ st.oob THEN st
    ELSE MulRows(RowDone(MulCarry(MulInner([st EXCEPT !.carry = 0], da, db, i, 0),
                                  i + Len(db))),
                 da, db, i + 1)

\* mutant: the accumulator is one cell short
MulAccumulate_Short(a, b) ==
    MulRows(NoRun(Len(a.digits) + Len(b.digits) - 1), a.digits, b.digits, 0)

\* the accumulator and the two loops over it
MulAccumulate(a, b) == MulRows(NoRun(Len(a.digits) + Len(b.digits)), a.digits, b.digits, 0)

RECURSIVE MulTrim(_, _)
MulTrim(tmp, m) == IF m > 1 /\ tmp[m] = 0 THEN MulTrim(tmp, m - 1) ELSE m

\* fd: the cells of tmp below the most significant zeros, as digits
MulDigits(tmp) == [k \in 1..MulTrim(tmp, Len(tmp)) |-> ToDigit(tmp[k])]

\* mutant: the result is negative only when both operands are
ResultSign_And(a, b) == a.sign /\ b.sign

ResultSign(a, b) == a.sign # b.sign

MulResult(rs, st) ==
    IF st.oob THEN Throw("OutOfBounds", "tmp[pos] past the end")
    ELSE Integer_vec(rs, MulDigits(st.tmp))

operator_mul(a, b) ==
    IF isZero(a) \/ isZero(b) THEN Ok(Zero)
    ELSE MulResult(ResultSign(a, b), MulAccumulate(a, b))

\* ---- comparison operators ----
operator_eq(a, b) ==
    IF isZero(a) /\ isZero(b) THEN TRUE
    ELSE IF a.sign # b.sign THEN FALSE
    ELSE a.digits = b.digits

operator_ne(a, b) == ~operator_eq(a, b)

operator_lt(a, b) ==
    IF a.sign /\ ~b.sign THEN TRUE
    ELSE IF ~a.sign /\ b.sign THEN FALSE
    ELSE IF isZero(a) /\ isZero(b) THEN FALSE
    ELSE LET cmp == compareMagnitude(a, b)
         IN  IF a.sign THEN cmp > 0 ELSE cmp < 0

operator_gt(a, b) == operator_lt(b, a)
operator_le(a, b) == ~operator_gt(a, b)
operator_ge(a, b) == ~operator_lt(a, b)

\* ---- operator<<(std::ostream&, const Integer&) ----
\* Text is a sequence of characters.  IntText is what os << int writes for an
\* int >= 0; SetW2 is std::setw(2) with std::setfill('0').
DigitChar(k) == <<"0", "1", "2", "3", "4", "5", "6", "7", "8", "9">>[k + 1]

RECURSIVE IntText(_)
IntText(k) == IF k < 10 THEN <<DigitChar(k)>> ELSE IntText(k \div 10) \o <<DigitChar(k % 10)>>

\* mutant: the lower digits are not padded
SetW2_NoPad(t) == t

SetW2(t) == IF Len(t) < 2 THEN <<"0">> \o t ELSE t

RECURSIVE RenderLow(_, _)
RenderLow(d, j) == IF j < 1 THEN <<>> ELSE SetW2(IntText(d[j])) \o RenderLow(d, j - 1)

Render(i) ==
    IF isZero(i) THEN <<"0">>
    ELSE (IF i.sign THEN <<"-">> ELSE <<>>)
         \o IntText(i.digits[Len(i.digits)])
         \o RenderLow(i.digits, Len(i.digits) - 1)

(***************************************************************************)
(* Rational (Rational.cpp): a numerator and a denominator.  A Rational     *)
(* function returns an outcome like an Integer one; exit(EXIT_FAILURE)     *)
(* after a line on std::cerr is the outcome how = "exit".                   *)
(***************************************************************************)
ROk(r) == [fail |-> "none", val |-> r, how |-> "return", msg |-> "", status |-> 0]
RExit(e, msg) == [fail |-> e, val |-> [num |-> Zero, den |-> Zero], how |-> "exit", msg |-> msg,
                  status |-> EXIT_FAILURE]
\* an exception of an Integer operation leaves the Rational function
RRaise(o) == [fail |-> o.fail, val |-> [num |-> Zero, den |-> Zero], how |-> o.how, msg |-> o.msg, status |-> 0]
IBind(o, F(_)) == IF o.fail # "none" THEN RRaise(o) ELSE F(o.val)

\* ---- Rational::normalize ----
\* mutant: a negative denominator is left as it is
Rational_normalize_NoFlip(r) ==
    IF isZero(r.num) THEN [r EXCEPT !.den = Integer_ll(1)] ELSE r

\* mutant: a zero numerator keeps the denominator it came with
Rational_normalize_KeepDen(r) ==
    IF isNegative(r.den)
    THEN [num |-> operator_neg(r.num), den |-> operator_neg(r.den)]
    ELSE r

Rational_normalize(r) ==
    LET r1 == IF isNegative(r.den)
              THEN [num |-> operator_neg(r.num), den |-> operator_neg(r.den)]
              ELSE r
    IN  IF isZero(r1.num) THEN [r1 EXCEPT !.den = Integer_ll(1)] ELSE r1

\* ---- Rational::Rational(Integer, Integer) ----
Rational_ctor(n, d) ==
    IF isZero(d)
    THEN RExit("ZeroDenominator", "Error: Rational denominator cannot be zero.")
    ELSE ROk(Rational_normalize([num |-> n, den |-> d]))

\* ---- Rational::Rational(Integer), Rational::Rational(long long) ----
Rational_int(n) == ROk(Rational_normalize([num |-> n, den |-> Integer_ll(1)]))
Rational_ll(n) == ROk(Rational_normalize([num |-> Integer_ll(n), den |-> Integer_ll(1)]))

\* ---- Rational() = default: the member initializers ----
Rational_default == [num |-> Integer_ll(0), den |-> Integer_ll(1)]

\* ---- Rational::operator-() ----
Rational_neg(r) == ROk(Rational_normalize([r EXCEPT !.num = operator_neg(r.num)]))

\* ---- Rational::operator+ ----
\* mutant: numerators and denominators are added separately
Rational_plus_Naive(a, b) ==
    IBind(operator_plus(a.num, b.num), LAMBDA nn :
    IBind(operator_plus(a.den, b.den), LAMBDA nd : Rational_ctor(nn, nd)))

Rational_plus(a, b) ==
    IBind(operator_mul(a.num, b.den), LAMBDA p1 :
    IBind(operator_mul(a.den, b.num), LAMBDA p2 :
    IBind(operator_plus(p1, p2), LAMBDA nn :
    IBind(operator_mul(a.den, b.den), LAMBDA nd : Rational_ctor(nn, nd)))))

\* ---- Rational::operator-(const Rational&) ----
\* mutant: the two products are subtracted the other way round
Rational_minus_Swapped(a, b) ==
    IBind(operator_mul(a.num, b.den), LAMBDA p1 :
    IBind(operator_mul(a.den, b.num), LAMBDA p2 :
    IBind(operator_minus(p2, p1), LAMBDA nn :
    IBind(operator_mul(a.den, b.den), LAMBDA nd : Rational_ctor(nn, nd)))))

Rational_minus(a, b) ==
    IBind(operator_mul(a.num, b.den), LAMBDA p1 :
    IBind(operator_mul(a.den, b.num), LAMBDA p2 :
    IBind(operator_minus(p1, p2), LAMBDA nn :
    IBind(operator_mul(a.den, b.den), LAMBDA nd : Rational_ctor(nn, nd)))))

\* ---- Rational::operator* ----
Rational_mul(a, b) ==
    IBind(operator_mul(a.num, b.num), LAMBDA nn :
    IBind(operator_mul(a.den, b.den), LAMBDA nd : Rational_ctor(nn, nd)))

\* ---- Rational::operator/ ----
\* mutant: the test for a zero divisor is missing
Rational_div_NoCheck(a, b) ==
    IBind(operator_mul(a.num, b.den), LAMBDA nn :
    IBind(operator_mul(a.den, b.num), LAMBDA nd : Rational_ctor(nn, nd)))

Rational_div(a, b) ==
    IF isZero(b.num)
    THEN RExit("DivisionByZero", "Error: Division by zero rational number.")
    ELSE IBind(operator_mul(a.num, b.den), LAMBDA nn :
         IBind(operator_mul(a.den, b.num), LAMBDA nd : Rational_ctor(nn, nd)))

\* ---- Rational::operator== ----
\* mutant: numerators and denominators are compared field by field
Rational_eq_Fields(a, b) ==
    [fail |-> "none", val |-> operator_eq(a.num, b.num) /\ operator_eq(a.den, b.den)]

\* l == r: the verdict, or the failure of one of the two products
EqProducts(l, r) ==
    [fail |-> IF l.fail # "none" THEN l.fail ELSE r.fail,
     val |-> operator_eq(l.val, r.val)]

Rational_eq(a, b) == EqProducts(operator_mul(a.num, b.den), operator_mul(a.den, b.num))

\* ---- operator<<(std::ostream&, const Rational&) ----
RenderRational(r) ==
    Render(r.num) \o (IF operator_ne(r.den, Integer_ll(1))
                      THEN <<"/">> \o Render(r.den) ELSE <<>>)

(***************************************************************************)
(* The mathematical reading of a value, used to state the claims.          *)
(***************************************************************************)
RECURSIVE MagVal(_)
MagVal(d) == IF d = <<>> THEN 0 ELSE d[1] + BASE * MagVal(Tail(d))

Val(i) == IF i.sign THEN -MagVal(i.digits) ELSE MagVal(i.digits)

\* the decimal text of a native integer
DecimalText(n) == IF n < 0 THEN <<"-">> \o IntText(-n) ELSE IntText(n)

(***************************************************************************)
(* The inputs the drivers draw from.                                       *)
(***************************************************************************)
\* char values handed to the char-array constructor: negative (signed char),
\* zero, valid, BASE - 1, BASE, above the signed range (unsigned char)
CharSamples == {-1, 0, 1, 99, 100, 200}
\* unsigned char values handed to the vector constructor
ByteSamples == {0, 1, 99, 100, 255}
SeqsUpTo(S, n) == UNION {[1..k -> S] : k \in 0..n}
NativeInputs ==
    {LLMin, LLMin + 1, -12345, -100, -99, -1, 0, 1, 7, 9, 10, 99, 100, 101,
     12345, 1000000, LLMax - 1, LLMax}
OperandInputs == {-9901, -99, -6, 0, 1, 99}
Operands == {Integer_ll(n) : n \in OperandInputs}
\* numerators and denominators handed to Rational(Integer, Integer)
RatInputs == {Integer_ll(n) : n \in {-150, -4, -1, 0, 1, 2, 4}}
\* native integers handed to Rational(long long)
RatNativeInputs == {-3, 0, 5}
\* the Rationals used as second operands, as (numerator, denominator)
ROperandInputs == {<<0, 1>>, <<1, 2>>, <<-1, 3>>, <<2, -5>>, <<2, 4>>, <<3, 1>>}
ROperands ==
    {Rational_ctor(Integer_ll(p[1]), Integer_ll(p[2])).val : p \in ROperandInputs}

(***************************************************************************)
(* State.  Spec drives one Integer:                                        *)
(*   live  whether the program holds a constructed value yet               *)
(*   acc   the value the program holds                                     *)
(*   src   the native integer acc was constructed from, if it was          *)
(*   last  the last operation: its inputs, its result or failure           *)
(*   nops  the arithmetic steps taken                                      *)
(* SpecRational drives one Rational:                                       *)
(*   rlive, rat, rlast, rops   the same for the Rational                   *)
(*   proc  the process: running, or exited with a status and its std::cerr *)
(* SpecLaws evaluates expressions over several operands at once:           *)
(*   law   the operands of the last evaluation and what it produced        *)
(***************************************************************************)
VARIABLES live, acc, src, last, nops, rlive, rat, rlast, rops, proc, law

intvars == <<live, acc, src, last, nops>>
ratvars == <<rlive, rat, rlast, rops, proc>>
vars == <<live, acc, src, last, nops, rlive, rat, rlast, rops, proc, law>>

NotNative == [native |-> FALSE, n |-> 0]
Native(n) == [native |-> TRUE, n |-> n]

NoCmp == [lt |-> FALSE, eq |-> FALSE, gt |-> FALSE, le |-> FALSE, ge |-> FALSE,
          ne |-> FALSE, ltRev |-> FALSE, gtRev |-> FALSE, eqRev |-> FALSE]
NoEvent ==
    [op |-> "none", a |-> Zero, b |-> Zero, s |-> FALSE, n |-> 0, d |-> NullPtr,
     res |-> Zero, fail |-> "none", how |-> "return", msg |-> "", text |-> <<>>,
     cmp |-> NoCmp, sub |-> NoCall]

RNone == [num |-> Zero, den |-> Zero]
Running == [status |-> "running", code |-> 0, stderr |-> ""]
Exited(code, text) == [status |-> "exited", code |-> code, stderr |-> text]
NoREvent ==
    [op |-> "none", a |-> RNone, b |-> RNone, n |-> Zero, d |-> Zero, res |-> RNone,
     fail |-> "none", how |-> "return", msg |-> "", status |-> 0, text |-> <<>>]

NoLaw == [kind |-> "none"]

\* Nothing is constructed yet.
Init ==
    /\ live = FALSE
    /\ acc = Zero
    /\ src = NotNative
    /\ last = NoEvent
    /\ nops = 0
    /\ rlive = FALSE
    /\ rat = RNone
    /\ rlast = NoREvent
    /\ rops = 0
    /\ proc = Running
    /\ law = NoLaw

\* A constructor's outcome: the new value, or the exception and no value (the
\* caller catches it and may construct again).
Constructed(o, ev) ==
    /\ ~live
    /\ live' = (o.fail = "none")
    /\ acc' = IF o.fail = "none" THEN o.val ELSE acc
    /\ src' = IF o.fail = "none" THEN NotNative ELSE src
    /\ last' = [ev EXCEPT !.res = o.val, !.fail = o.fail, !.how = o.how, !.msg = o.msg]
    /\ UNCHANGED <<nops, ratvars, law>>

ConstructDefault ==
    Constructed(Ok(Zero), [NoEvent EXCEPT !.op = "Integer()"])

ConstructLL ==
    \E n \in NativeInputs :
        /\ ~live
        /\ live' = TRUE
        /\ acc' = Integer_ll(n)
        /\ src' = Native(n)
        /\ last' = [NoEvent EXCEPT !.op = "Integer(ll)", !.n = n, !.res = Integer_ll(n)]
        /\ UNCHANGED <<nops, ratvars, law>>

ConstructChars ==
    \E s \in BOOLEAN, arr \in SeqsUpTo(CharSamples, MaxLen) :
        \E n \in {-1, 0, Len(arr)}, null \in BOOLEAN :
            LET d == IF null THEN NullPtr ELSE ArrayPtr(arr)
            IN  /\ null => arr = <<>>
                /\ Constructed(Integer_chars(s, n, d),
                               [NoEvent EXCEPT !.op = "Integer(s,n,d)", !.s = s,
                                               !.n = n, !.d = d])

ConstructVec ==
    \E s \in BOOLEAN, d \in SeqsUpTo(ByteSamples, MaxLen) :
        Constructed(Integer_vec(s, d),
                    [NoEvent EXCEPT !.op = "Integer(s,vec)", !.s = s,
                                    !.d = ArrayPtr(d)])

\* A run of the driver constructs a value, takes arithmetic steps on it and
\* ends by observing it (comparing or streaming it, which change nothing).
Observed == last.op \in {"compare", "print"}

\* An arithmetic step on acc: the result replaces acc, an exception leaves it.
Stepped(o, ev) ==
    /\ live
    /\ ~Observed
    /\ nops < MaxOps
    /\ Len(o.val.digits) <= MaxDigits
    /\ acc' = IF o.fail = "none" THEN o.val ELSE acc
    /\ src' = IF o.fail = "none" THEN NotNative ELSE src
    /\ last' = [ev EXCEPT !.a = acc, !.res = o.val, !.fail = o.fail, !.how = o.how,
                          !.msg = o.msg]
    /\ nops' = nops + 1
    /\ UNCHANGED <<live, ratvars, law>>

Negate == Stepped(Ok(operator_neg(acc)), [NoEvent EXCEPT !.op = "negate"])

AbsValue == Stepped(Ok(abs(acc)), [NoEvent EXCEPT !.op = "abs"])

Add == \E b \in Operands :
    Stepped(operator_plus(acc, b),
            [NoEvent EXCEPT !.op = "add", !.b = b, !.sub = SubtractCall(acc, b)])

Subtract == \E b \in Operands :
    Stepped(operator_minus(acc, b),
            [NoEvent EXCEPT !.op = "subtract", !.b = b,
                            !.sub = SubtractCall(acc, operator_neg(b))])

Multiply == \E b \in Operands :
    Stepped(operator_mul(acc, b), [NoEvent EXCEPT !.op = "multiply", !.b = b])

Compare == \E b \in Operands :
    /\ live
    /\ ~Observed
    /\ last' = [NoEvent EXCEPT !.op = "compare", !.a = acc, !.b = b,
                   !.cmp = [lt |-> operator_lt(acc, b), eq |-> operator_eq(acc, b),
                            gt |-> operator_gt(acc, b), le |-> operator_le(acc, b),
                            ge |-> operator_ge(acc, b), ne |-> operator_ne(acc, b),
                            ltRev |-> operator_lt(b, acc),
                            gtRev |-> operator_gt(b, acc),
                            eqRev |-> operator_eq(b, acc)]]
    /\ UNCHANGED <<live, acc, src, nops, ratvars, law>>

StreamOut ==
    /\ live
    /\ ~Observed
    /\ last' = [NoEvent EXCEPT !.op = "print", !.a = acc, !.text = Render(acc)]
    /\ UNCHANGED <<live, acc, src, nops, ratvars, law>>

Next ==
    \/ ConstructDefault
    \/ ConstructLL
    \/ ConstructChars
    \/ ConstructVec
    \/ Negate
    \/ AbsValue
    \/ Add
    \/ Subtract
    \/ Multiply
    \/ Compare
    \/ StreamOut

(***************************************************************************)
(* The Rational driver.                                                    *)
(***************************************************************************)
\* What an outcome does to the program: a value replaces rat, an exception
\* leaves it, exit() ends the process.
Outcome(o, ev) ==
    /\ proc.status = "running"
    /\ rat' = IF o.fail = "none" THEN o.val ELSE rat
    /\ rlast' = [ev EXCEPT !.res = o.val, !.fail = o.fail, !.how = o.how,
                           !.msg = o.msg, !.status = o.status]
    /\ proc' = IF o.how = "exit" THEN Exited(o.status, o.msg) ELSE proc

RConstructed(o, ev) ==
    /\ ~rlive
    /\ Outcome(o, ev)
    /\ rlive' = (o.fail = "none")
    /\ UNCHANGED <<rops, intvars, law>>

RConstructDefault ==
    RConstructed(ROk(Rational_default), [NoREvent EXCEPT !.op = "Rational()"])

RConstruct ==
    \E n \in RatInputs, d \in RatInputs :
        RConstructed(Rational_ctor(n, d),
                     [NoREvent EXCEPT !.op = "Rational(n,d)", !.n = n, !.d = d])

RConstructInt ==
    \E n \in RatInputs :
        RConstructed(Rational_int(n), [NoREvent EXCEPT !.op = "Rational(n)", !.n = n])

RConstructLL ==
    \E n \in RatNativeInputs :
        RConstructed(Rational_ll(n),
                     [NoREvent EXCEPT !.op = "Rational(ll)", !.n = Integer_ll(n)])

\* Writing the value ends a run.
RObserved == rlast.op = "print"

RStepped(o, ev) ==
    /\ rlive
    /\ ~RObserved
    /\ rops < MaxRatOps
    /\ Len(o.val.num.digits) <= MaxDigits
    /\ Len(o.val.den.digits) <= MaxDigits
    /\ Outcome(o, [ev EXCEPT !.a = rat])
    /\ rops' = rops + 1
    /\ UNCHANGED <<rlive, intvars, law>>

RNegate == RStepped(Rational_neg(rat), [NoREvent EXCEPT !.op = "negate"])

RAdd == \E b \in ROperands :
    RStepped(Rational_plus(rat, b), [NoREvent EXCEPT !.op = "add", !.b = b])

RSubtract == \E b \in ROperands :
    RStepped(Rational_minus(rat, b), [NoREvent EXCEPT !.op = "subtract", !.b = b])

RMultiply == \E b \in ROperands :
    RStepped(Rational_mul(rat, b), [NoREvent EXCEPT !.op = "multiply", !.b = b])

RDivide == \E b \in ROperands :
    RStepped(Rational_div(rat, b), [NoREvent EXCEPT !.op = "divide", !.b = b])

\* os << r
RStreamOut ==
    /\ rlive
    /\ ~RObserved
    /\ proc.status = "running"
    /\ rlast' = [NoREvent EXCEPT !.op = "print", !.a = rat, !.text = RenderRational(rat)]
    /\ UNCHANGED <<rlive, rat, rops, proc, intvars, law>>

NextRational ==
    \/ RConstructDefault
    \/ RConstruct
    \/ RConstructInt
    \/ RConstructLL
    \/ RNegate
    \/ RAdd
    \/ RSubtract
    \/ RMultiply
    \/ RDivide
    \/ RStreamOut

Spec == Init /\ [][Next]_vars

SpecRational == Init /\ [][NextRational]_vars

(***************************************************************************)
(* SpecLaws: expressions over several operands, evaluated with the         *)
(* operators above.  Each action draws its operands and records what the   *)
(* expressions produced; a run evaluates once.                             *)
(***************************************************************************)
LawInputs == {-999999, -9901, -99, -1, 0, 1, 7, 100, 9999}
LawOperands == {Integer_ll(n) : n \in LawInputs}

\* l == r as the code decides it, both sides having been computed
Same(l, r) == l.fail = "none" /\ r.fail = "none" /\ operator_eq(l.val, r.val)

\* the expressions of the ring laws over a, b and c
IntegerLaws == \E a \in LawOperands, b \in LawOperands, c \in LawOperands :
    /\ law = NoLaw
    /\ law' =
          [kind |-> "integer", a |-> a, b |-> b, c |-> c,
           addZero |-> Same(operator_plus(a, Integer_ll(0)), Ok(a)),
           addNegation |-> Same(operator_plus(a, operator_neg(a)), Ok(Integer_ll(0))),
           addCommutes |-> Same(operator_plus(a, b), operator_plus(b, a)),
           mulCommutes |-> Same(operator_mul(a, b), operator_mul(b, a)),
           addAssociates |->
               Same(Bind(operator_plus(a, b), LAMBDA s : operator_plus(s, c)),
                    Bind(operator_plus(b, c), LAMBDA s : operator_plus(a, s))),
           mulAssociates |->
               Same(Bind(operator_mul(a, b), LAMBDA s : operator_mul(s, c)),
                    Bind(operator_mul(b, c), LAMBDA s : operator_mul(a, s))),
           distributes |->
               Same(Bind(operator_plus(b, c), LAMBDA s : operator_mul(a, s)),
                    Bind(operator_mul(a, b), LAMBDA s :
                    Bind(operator_mul(a, c), LAMBDA t : operator_plus(s, t))))]
    /\ UNCHANGED <<intvars, ratvars>>

\* -a, abs(a), a + b, a - b and a * b
IntegerArithmetic == \E a \in LawOperands, b \in LawOperands :
    /\ law = NoLaw
    /\ law' =
          [kind |-> "integer arithmetic", a |-> a, b |-> b,
           negation |-> Ok(operator_neg(a)),
           absolute |-> Ok(abs(a)),
           sum |-> operator_plus(a, b),
           difference |-> operator_minus(a, b),
           product |-> operator_mul(a, b)]
    /\ UNCHANGED <<intvars, ratvars>>

\* the loops of a * b for non-zero a and b
MulOperands == {i \in LawOperands : ~isZero(i)}
IntegerMultiplication == \E a \in MulOperands, b \in MulOperands :
    /\ law = NoLaw
    /\ law' = [kind |-> "multiplication", a |-> a, b |-> b, run |-> MulAccumulate(a, b),
               product |-> operator_mul(a, b)]
    /\ UNCHANGED <<intvars, ratvars>>

\* Rationals that constructors and one operation on them produce
RLawValues ==
    ROperands
    \cup {Rational_mul(a, b).val : a \in ROperands, b \in ROperands}
    \cup {Rational_minus(a, a).val : a \in ROperands}

\* operator== over three Rationals
RationalEquality == \E a \in RLawValues, b \in RLawValues, c \in RLawValues :
    /\ law = NoLaw
    /\ law' =
          [kind |-> "equality", a |-> a, b |-> b, c |-> c,
           aa |-> Rational_eq(a, a), ab |-> Rational_eq(a, b),
           ba |-> Rational_eq(b, a), bc |-> Rational_eq(b, c),
           ac |-> Rational_eq(a, c)]
    /\ UNCHANGED <<intvars, ratvars>>

\* numerators, and the non-zero denominators and factors, of the scaled fraction
ScaleInputs == {Integer_ll(n) : n \in {-150, -4, -1, 0, 1, 2, 4}}
ScaleNonZero == {i \in ScaleInputs : ~isZero(i)}

\* Rational(k * n, k * d)
Scaled(n, d, k) ==
    IBind(operator_mul(k, n), LAMBDA x :
    IBind(operator_mul(k, d), LAMBDA y : Rational_ctor(x, y)))

ScalingRecord(n, d, k, scaled, plain) ==
    [kind |-> "scaling", n |-> n, d |-> d, k |-> k, scaled |-> scaled, plain |-> plain,
     equal |-> Rational_eq(scaled.val, plain.val)]

\* Rational(k * n, k * d) == Rational(n, d)
RationalScaling == \E n \in ScaleInputs, d \in ScaleNonZero, k \in ScaleNonZero :
    /\ law = NoLaw
    /\ law' = ScalingRecord(n, d, k, Scaled(n, d, k), Rational_ctor(n, d))
    /\ UNCHANGED <<intvars, ratvars>>

\* the operands of the arithmetic: RLawValues and those of the worked examples
ArithInputs == {<<1, 3>>, <<2, 1>>}
ArithValues ==
    RLawValues
    \cup {Rational_ctor(Integer_ll(p[1]), Integer_ll(p[2])).val : p \in ArithInputs}

\* -a, a + b, a - b, a * b and a / b
RationalArithmetic == \E a \in ArithValues, b \in ArithValues :
    /\ law = NoLaw
    /\ law' =
          [kind |-> "arithmetic", a |-> a, b |-> b,
           negation |-> Rational_neg(a),
           sum |-> Rational_plus(a, b),
           difference |-> Rational_minus(a, b),
           product |-> Rational_mul(a, b),
           quotient |-> Rational_div(a, b)]
    /\ UNCHANGED <<intvars, ratvars>>

NextLaws ==
    \/ IntegerLaws
    \/ IntegerArithmetic
    \/ IntegerMultiplication
    \/ RationalEquality
    \/ RationalScaling
    \/ RationalArithmetic

SpecLaws == Init /\ [][NextLaws]_vars

(***************************************************************************)
(* Claims about Integer, checked under Spec.                               *)
(***************************************************************************)
\* canonical form: digits in [0, BASE), no most-significant zero, zero is the
\* empty sequence with sign = FALSE
Canonical(i) ==
    /\ \A k \in 1..Len(i.digits) : i.digits[k] >= 0 /\ i.digits[k] < BASE
    /\ i.digits # <<>> => i.digits[Len(i.digits)] # 0
    /\ i.digits = <<>> => i.sign = FALSE
    /\ isZero(i) <=> i.digits = <<>>

\* C1: every Integer the program holds, and every value a constructor or
\* negate, abs, +, -, * returned, is in canonical form.
C1_CanonicalForm ==
    /\ Canonical(acc)
    /\ last.fail = "none" => Canonical(last.res)

\* 10000 - 1: the borrow runs through every digit and the top digit is stripped
C1_Witness ==
    /\ last.op = "subtract"
    /\ nops = 2
    /\ last.a.digits = <<0, 0, 1>>
    /\ acc = [sign |-> FALSE, digits |-> <<99, 99>>]

\* the digits a constructor call supplies: d[0..n-1], none for a null pointer
\* or n <= 0
Supplied(ev) == IF ev.d.null \/ ev.n <= 0 THEN <<>> ELSE SubSeq(ev.d.arr, 1, ev.n)

\* the promised result of constructing from sign s and valid digits d
ValueOfDigits(s, d, r) ==
    /\ Canonical(r)
    /\ MagVal(r.digits) = MagVal(d)
    /\ r.sign = (s /\ MagVal(d) # 0)

C7_Addition ==
    last.op = "add" =>
        LET a == last.a
            b == last.b
            r == last.res
            ma == MagVal(a.digits)
            mb == MagVal(b.digits)
        IN  /\ last.fail = "none"
            /\ acc = r
            /\ Canonical(r)
            /\ Val(r) = Val(a) + Val(b)
            /\ a.sign = b.sign => MagVal(r.digits) = ma + mb /\ r.sign = a.sign
            /\ (a.sign # b.sign /\ ma > mb) => MagVal(r.digits) = ma - mb /\ r.sign = a.sign
            /\ (a.sign # b.sign /\ ma < mb) => MagVal(r.digits) = mb - ma /\ r.sign = b.sign
            /\ (a.sign # b.sign /\ ma = mb) => r = Zero

\* 1000000 + (-6): the borrow runs through three digits
C7_Witness ==
    /\ last.op = "add"
    /\ last.a = [sign |-> FALSE, digits |-> <<0, 0, 0, 1>>]
    /\ last.b = [sign |-> TRUE, digits |-> <<6>>]
    /\ acc = [sign |-> FALSE, digits |-> <<94, 99, 99>>]

\* C8: a * b is the canonical Integer of value a * b: zero when an operand is
\* zero, else |a| * |b| with the XOR of the signs; 7 * -6 renders "-42".
C8_Multiplication ==
    last.op = "multiply" =>
        LET a == last.a
            b == last.b
            r == last.res
        IN  /\ last.fail = "none"
            /\ acc = r
            /\ Canonical(r)
            /\ Val(r) = Val(a) * Val(b)
            /\ (isZero(a) \/ isZero(b)) => r = Zero
            /\ ~(isZero(a) \/ isZero(b)) =>
                 /\ MagVal(r.digits) = MagVal(a.digits) * MagVal(b.digits)
                 /\ r.sign = (a.sign # b.sign)
            /\ (Val(a) = 7 /\ Val(b) = -6) => Render(r) = <<"-", "4", "2">>

C8_Witness ==
    /\ last.op = "multiply"
    /\ last.a = [sign |-> FALSE, digits |-> <<7>>]
    /\ last.b = [sign |-> TRUE, digits |-> <<6>>]
    /\ Render(acc) = <<"-", "4", "2">>

\* C9: exactly one of a < b, a == b, a > b holds; a < b iff b > a; the order is
\* that of the values; <= and >= are the negations of > and <.
C9_Ordering ==
    last.op = "compare" =>
        LET c == last.cmp
            va == Val(last.a)
            vb == Val(last.b)
        IN  /\ (c.lt /\ ~c.eq /\ ~c.gt) \/ (~c.lt /\ c.eq /\ ~c.gt) \/ (~c.lt /\ ~c.eq /\ c.gt)
            /\ c.lt <=> c.gtRev
            /\ c.lt <=> va < vb
            /\ c.eq <=> va = vb
            /\ c.gt <=> va > vb
            /\ c.le <=> ~c.gt
            /\ c.ge <=> ~c.lt

\* two negatives of the same length: -100 > -9901
C9_Witness ==
    /\ last.op = "compare"
    /\ last.a = [sign |-> TRUE, digits |-> <<0, 1>>]
    /\ last.b = [sign |-> TRUE, digits |-> <<1, 99>>]
    /\ last.cmp.gt
    /\ last.cmp.ltRev

\* C10: an Integer constructed from the native integer n and streamed with
\* operator<< is written as the decimal text of n.
C10_RoundTrip ==
    (last.op = "print" /\ src.native) => last.text = DecimalText(src.n)

\* the minimum native value
C10_Witness ==
    /\ last.op = "print"
    /\ src = Native(LLMin)
    /\ last.text = DecimalText(LLMin)

\* C18: subtractMagnitude is only ever invoked with a first operand whose
\* magnitude is not less than the second's: operator+ (and operator- through
\* it) orders the arguments as (larger, smaller), so the subtraction ends with
\* borrow 0 and a non-zero result.
C18_SubtractOrdered ==
    (last.op \in {"add", "subtract"} /\ last.sub.called) =>
        /\ MagVal(last.sub.x.digits) >= MagVal(last.sub.y.digits)
        /\ last.sub.borrow = 0
        /\ ~isZero(last.sub.res)
        /\ MagVal(last.sub.res.digits) =
             MagVal(last.sub.x.digits) - MagVal(last.sub.y.digits)

\* a - b with |a| < |b|: the arguments are swapped, and a digit borrows
C18_Witness ==
    /\ last.op = "subtract"
    /\ last.sub.called
    /\ last.sub.y = last.a
    /\ last.sub.x # last.a
    /\ Len(last.sub.x.digits) = 2
    /\ last.sub.x.digits[1] < last.sub.y.digits[1]
    /\ last.sub.borrow = 0

(***************************************************************************)
(* Claims about Rational, checked under SpecRational.                      *)
(***************************************************************************)
RECURSIVE Gcd(_, _)
Gcd(p, q) == IF q = 0 THEN p ELSE Gcd(q, p % q)

\* C2: every Rational a constructor or an operation produced is in lowest
\* terms, and Rational(2, 4) is 1/2 and renders "1/2".
C2_LowestTerms ==
    rlive =>
        /\ Gcd(Abs(Val(rat.num)), Val(rat.den)) = 1
        /\ (rlast.op = "Rational(n,d)" /\ Val(rlast.n) = 2 /\ Val(rlast.d) = 4) =>
             /\ rat = [num |-> Integer_ll(1), den |-> Integer_ll(2)]
             /\ RenderRational(rat) = <<"1", "/", "2">>

\* C3: the denominator of every Rational is strictly positive.
C3_DenominatorPositive ==
    /\ rlive => (~rat.den.sign /\ ~isZero(rat.den) /\ Val(rat.den) > 0)
    /\ rlast.fail = "none" /\ rlast.op \notin {"none", "print"} => Val(rlast.res.den) > 0

\* a division by a Rational with a negative numerator: the sign moves up
C3_Witness ==
    /\ rlast.op = "divide"
    /\ rlast.fail = "none"
    /\ isNegative(rlast.b.num)
    /\ ~isNegative(rlast.a.num)
    /\ isNegative(rat.num)
    /\ Val(rat.den) > 0

\* C4: Rational(n, 0) fails with ZeroDenominator, produces no value, and the
\* caller goes on: the process does not die.
C4_ZeroDenominatorRecoverable ==
    (rlast.op = "Rational(n,d)" /\ isZero(rlast.d)) =>
        /\ rlast.fail = "ZeroDenominator"
        /\ ~rlive
        /\ proc.status = "running"

\* what a caller can tell failures apart by
Observable(o) == <<o.how, o.msg>>

\* C5: a / b with b.numerator = 0 fails with DivisionByZero, yields no value,
\* and what is observed differs from the failure of Rational(n, 0) and from
\* the InvalidDigit failures.
C5_DivisionByZero ==
    (rlast.op = "divide" /\ isZero(rlast.b.num)) =>
        /\ rlast.fail = "DivisionByZero"
        /\ rlast.res = RNone
        /\ rat = rlast.a
        /\ Observable(rlast) # Observable(Rational_ctor(Integer_ll(1), Zero))
        /\ Observable(rlast) # Observable(Integer_vec(FALSE, <<BASE>>))
        /\ Observable(rlast) # Observable(Integer_chars(FALSE, 1, ArrayPtr(<<BASE>>)))

C5_Witness ==
    /\ rlast.op = "divide"
    /\ isZero(rlast.b.num)
    /\ rlast.fail = "DivisionByZero"
    /\ proc.status = "exited"

\* C13: whenever a Rational's numerator is zero its denominator is exactly 1,
\* after any construction and any operation, and such a value renders as "0".
C13_ZeroIsCanonical ==
    /\ (rlive /\ isZero(rat.num)) => rat.den = [sign |-> FALSE, digits |-> <<1>>]
    /\ (rlast.fail = "none" /\ isZero(rlast.res.num) /\ rlast.op \notin {"none", "print"})
          => rlast.res.den = [sign |-> FALSE, digits |-> <<1>>]
    /\ (rlast.op = "print" /\ isZero(rlast.a.num)) => rlast.text = <<"0">>

\* a zero that an operation on a non-zero value produced (a - a, 0 * b), written
C13_Witness ==
    /\ rlast.op = "print"
    /\ isZero(rlast.a.num)
    /\ rops > 0
    /\ rlast.text = <<"0">>

\* a + (-b), as operator+ and the unary operator- compute it
AddNegation(a, b) ==
    LET nb == Rational_neg(b)
    IN  IF nb.fail # "none" THEN nb ELSE Rational_plus(a, nb.val)

\* C15: a - b, computed directly, has the same numerator and the same
\* denominator as a + (-b), including when b is zero or the result is zero.
C15_SubtractIsAddNegation ==
    rlast.op = "subtract" =>
        LET sum == AddNegation(rlast.a, rlast.b)
        IN  /\ rlast.fail = "none"
            /\ sum.fail = "none"
            /\ rlast.res.num = sum.val.num
            /\ rlast.res.den = sum.val.den

\* a - a for a non-zero a: the result is zero
C15_Witness ==
    /\ rlast.op = "subtract"
    /\ rlast.fail = "none"
    /\ ~isZero(rlast.a.num)
    /\ isZero(rlast.res.num)
    /\ rlast.res = AddNegation(rlast.a, rlast.b).val

\* a - 0
C15_WitnessZeroOperand ==
    /\ rlast.op = "subtract"
    /\ isZero(rlast.b.num)
    /\ ~isZero(rlast.a.num)
    /\ rlast.res = rlast.a

(***************************************************************************)
(* Claims about expressions over several operands, checked under SpecLaws. *)
(***************************************************************************)
\* C11: Integer arithmetic satisfies the ring laws under operator==: for all
\* a, b, c: a + 0 == a, a + (-a) == 0, a + b == b + a, a * b == b * a,
\* (a + b) + c == a + (b + c), (a * b) * c == a * (b * c) and
\* a * (b + c) == a * b + a * c.
C11_RingLaws ==
    law.kind = "integer" =>
        /\ law.addZero
        /\ law.addNegation
        /\ law.addCommutes
        /\ law.mulCommutes
        /\ law.addAssociates
        /\ law.mulAssociates
        /\ law.distributes

\* three non-zero operands of both signs, b + c a difference that changes sign
C11_Witness ==
    /\ law.kind = "integer"
    /\ law.a = Integer_ll(-9901)
    /\ law.b = Integer_ll(-999999)
    /\ law.c = Integer_ll(9999)
    /\ law.distributes
    /\ law.addCommutes

\* C12: Rational operator== (cross-multiplication) is reflexive, symmetric and
\* transitive over the Rationals that constructors and operations produce, and
\* for all n, non-zero d and non-zero k, Rational(k*n, k*d) == Rational(n, d).
C12_EqualityIsEquivalence ==
    /\ law.kind = "equality" =>
          /\ \A f \in {"aa", "ab", "ba", "bc", "ac"} : law[f].fail = "none"
          /\ law.aa.val
          /\ law.ab.val <=> law.ba.val
          /\ (law.ab.val /\ law.bc.val) => law.ac.val
    /\ law.kind = "scaling" =>
          /\ law.scaled.fail = "none"
          /\ law.plain.fail = "none"
          /\ law.equal.fail = "none"
          /\ law.equal.val

\* three different representations of one value, compared and found equal
C12_Witness ==
    /\ law.kind = "equality"
    /\ law.a # law.b
    /\ law.b # law.c
    /\ law.a # law.c
    /\ law.ab.val
    /\ law.bc.val
    /\ ~isZero(law.a.num)

\* a negative factor: the scaled fraction is stored differently and is equal
C12_WitnessScaling ==
    /\ law.kind = "scaling"
    /\ isNegative(law.k)
    /\ ~isZero(law.n)
    /\ law.scaled.val # law.plain.val
    /\ law.equal.val

\* r is a fraction and denotes N/D
Denotes(r, N, D) == Val(r.den) # 0 /\ Val(r.num) * D = N * Val(r.den)

Frac(n, d) == [num |-> Integer_ll(n), den |-> Integer_ll(d)]

\* C14: the result r of add, multiply and divide (divisor numerator non-zero)
\* denotes exactly N/D, i.e. r.num * D = N * r.den, where N/D is
\* (a.num*b.den + b.num*a.den)/(a.den*b.den) for add, (a.num*b.num)/(a.den*b.den)
\* for multiply and (a.num*b.den)/(a.den*b.num) for divide; 1/2 + 1/3 gives 5/6
\* and (1/2) / (2/1) gives 1/4.
C14_ArithmeticDenotes ==
    law.kind = "arithmetic" =>
        LET an == Val(law.a.num)
            ad == Val(law.a.den)
            bn == Val(law.b.num)
            bd == Val(law.b.den)
        IN  /\ law.sum.fail = "none"
            /\ Denotes(law.sum.val, an * bd + bn * ad, ad * bd)
            /\ law.product.fail = "none"
            /\ Denotes(law.product.val, an * bn, ad * bd)
            /\ bn # 0 =>
                  /\ law.quotient.fail = "none"
                  /\ Denotes(law.quotient.val, an * bd, ad * bn)
            /\ (law.a = Frac(1, 2) /\ law.b = Frac(1, 3)) => law.sum.val = Frac(5, 6)
            /\ (law.a = Frac(1, 2) /\ law.b = Frac(2, 1)) => law.quotient.val = Frac(1, 4)

\* 1/2 + 1/3
C14_Witness ==
    /\ law.kind = "arithmetic"
    /\ law.a = Frac(1, 2)
    /\ law.b = Frac(1, 3)
    /\ law.sum.val = Frac(5, 6)

\* a division by a negative fraction: numerator and denominator change sign
C14_WitnessNegativeDivisor ==
    /\ law.kind = "arithmetic"
    /\ isNegative(law.b.num)
    /\ ~isZero(law.a.num)
    /\ law.quotient.fail = "none"
    /\ Val(law.quotient.val.den) = -(Val(law.a.den) * Val(law.b.num))

\* C16: no arithmetic operation on well-formed values fails except Rational
\* divide by a zero-valued fraction: Integer negate, abs, +, -, * never raise
\* InvalidDigit (every digit they produce is below 100), and Rational negate,
\* +, -, * and divide by a non-zero fraction never reach the zero-denominator
\* failure (the denominator they pass is never zero).
C16_ArithmeticNeverFails ==
    /\ law.kind = "integer arithmetic" =>
          \A f \in {"negation", "absolute", "sum", "difference", "product"} :
              /\ law[f].fail = "none"
              /\ \A k \in 1..Len(law[f].val.digits) : law[f].val.digits[k] < BASE
    /\ law.kind = "arithmetic" =>
          /\ \A f \in {"negation", "sum", "difference", "product"} :
                /\ law[f].fail = "none"
                /\ ~isZero(law[f].val.den)
          /\ ~isZero(law.b.num) =>
                /\ law.quotient.fail = "none"
                /\ ~isZero(law.quotient.val.den)
          /\ isZero(law.b.num) => law.quotient.fail = "DivisionByZero"

\* a sum that carries out of digits that are all BASE - 1
C16_Witness ==
    /\ law.kind = "integer arithmetic"
    /\ law.a = Integer_ll(-999999)
    /\ law.b = Integer_ll(-9901)
    /\ law.sum.fail = "none"
    /\ Len(law.sum.val.digits) = 4
    /\ law.product.fail = "none"

\* a Rational division by a non-zero fraction, and one by zero
C16_WitnessRational ==
    /\ law.kind = "arithmetic"
    /\ isNegative(law.b.num)
    /\ law.quotient.fail = "none"
    /\ law.difference.fail = "none"

\* C17: during the multiplication of two non-zero canonical operands every read
\* and write of the accumulator stays within indices 0 .. len(a)+len(b)-1 (the
\* carry loop after a row never advances past the end), every carry value is
\* below 100, every accumulator cell is below 100 after each row, and the
\* carry loop terminates.
C17_MultiplicationInBounds ==
    law.kind = "multiplication" =>
        LET n == Len(law.a.digits) + Len(law.b.digits)
        IN  /\ ~law.run.oob
            /\ law.run.last <= n - 1
            /\ law.run.top < BASE
            /\ law.run.cells
            /\ law.run.steps <= n

\* operands whose digits are all BASE - 1: the largest carries, and a carry
\* loop that runs
C17_Witness ==
    /\ law.kind = "multiplication"
    /\ law.a = Integer_ll(-999999)
    /\ law.b = Integer_ll(9999)
    /\ law.run.top = BASE - 1
    /\ law.run.steps > 0
    /\ law.run.last = 4
    /\ law.product.fail = "none"

=============================================================================
